---- MODULE Spec2Model ----
(***************************************************************************)
(* Cardholder Capability Container (CCC) support of yubikey.rs:            *)
(* src/src/cccid.rs.  CCC::cccid, CCC::get and CCC::set are modelled as     *)
(* calls of one single-threaded caller against one device handle.  The     *)
(* device (begin_transaction, fetch_object, save_object, the transaction   *)
(* guard's release) is a collaborator whose code is outside src/; it is    *)
(* modelled as an object store plus a count of active transactions.        *)
(*                                                                         *)
(* Byte sequences are TLA+ sequences, so the byte at Rust offset i is      *)
(* element i + 1.                                                          *)
(***************************************************************************)
EXTENDS Integers, Sequences, FiniteSets

VARIABLES
    store,     \* device object store: object id -> bytes
    active,    \* number of transactions active on the device handle
    pc,        \* position of the caller inside the current call
    op,        \* the call in progress: "none", "cccid", "get", "set"
    self,      \* the CCC the call was made on (cccid, set), <<>> otherwise
    buf,       \* set's local buf
    response,  \* get's local response
    result,    \* the call's return value
    beginRes,  \* history: outcome of this call's begin_transaction
    objRes,    \* history: outcome of this call's fetch_object / save_object
    nBegin,    \* history: begin_transaction calls made by this call
    nObjOps,   \* history: fetch_object / save_object calls made by this call
    noTxnOps,  \* history: object operations this call made with no transaction active
    nested,    \* history: a begin_transaction was issued while a transaction was active
    written,   \* history: object ids this call wrote
    saved      \* history: the CCC of the last successful set, <<>> if none

vars == <<store, active, pc, op, self, buf, response, result, beginRes, objRes,
          nBegin, nObjOps, noTxnOps, nested, written, saved>>

----------------------------------------------------------------------------
(* Constants of cccid.rs *)

CCCID_SIZE == 14

CCC_SIZE == 51

CCC_ID_OFFS == 9

\* 0x005f_c107
OBJ_CAPABILITY == 6275335

CCC_TMPL ==
    << 240, 21, 160, 0, 0, 1, 22, 255, 2, 0, 0, 0, 0, 0, 0, 0,
       0, 0, 0, 0, 0, 0, 0, 241, 1, 33, 242, 1, 33, 243, 0, 244,
       1, 0, 245, 1, 16, 246, 0, 247, 0, 250, 0, 251, 0, 252, 0, 253,
       0, 254, 0 >>

----------------------------------------------------------------------------
(* Bounds of the model *)

\* sample byte values are (k * 255) % 256 for k in 0..MaxByteSample: 0, 255, 254, ...
MaxByteSample == 1

\* the device's initial object is 0 .. CCC_SIZE + MaxExtraLen bytes long
MaxExtraLen == 1

SampleBytes == { (k * 255) % 256 : k \in 0..MaxByteSample }

Offsets(s) == 0 .. (Len(s) - 1)

At(s, i) == s[i + 1]

Fill(n, v) == [i \in 1..n |-> v]

Perturb(base, p, v) == [i \in 1..Len(base) |-> IF i = p + 1 THEN v ELSE base[i]]

\* CardId values: 14 bytes
CardIds ==
    { Perturb(Fill(CCCID_SIZE, b), p, v) :
        b \in SampleBytes, p \in {0, CCCID_SIZE - 1}, v \in SampleBytes }

\* the spec's "embedding c into the template at the canonical offset"
Embed(c) ==
    [i \in 1..Len(CCC_TMPL) |->
        IF i > CCC_ID_OFFS /\ i <= CCC_ID_OFFS + CCCID_SIZE
        THEN c[i - CCC_ID_OFFS]
        ELSE CCC_TMPL[i]]

\* CCC values a caller may hold: any [u8; 51] (the field is public)
InputCCCs ==
    { Perturb(CCC_TMPL, p, v) : p \in Offsets(CCC_TMPL), v \in SampleBytes }
    \cup { Embed(c) : c \in CardIds }
    \cup { Fill(CCC_SIZE, v) : v \in SampleBytes }

\* what the device may hold under an object id before any call
InitObjects ==
    { [i \in 1..n |-> IF i <= Len(CCC_TMPL) THEN CCC_TMPL[i] ELSE v] :
        n \in 0 .. (CCC_SIZE + MaxExtraLen), v \in SampleBytes }
    \cup { Embed(Fill(CCCID_SIZE, v)) : v \in SampleBytes }

ObjectIds == { OBJ_CAPABILITY, OBJ_CAPABILITY + 1 }

\* crate::error::Error values the device may answer with
TransportErrors == { "PcscError", "GenericError" }

----------------------------------------------------------------------------
(* Result<T, Error> *)

Ok(v) == [ok |-> TRUE, val |-> v, err |-> "none"]

Err(e) == [ok |-> FALSE, val |-> <<>>, err |-> e]

NoResult == [ok |-> FALSE, val |-> <<>>, err |-> "pending"]

----------------------------------------------------------------------------
(* The device collaborator (yubikey.rs / transaction.rs, outside src/) *)

\* begin_transaction succeeded: exclusive access acquired
TxnAcquire(n) == n + 1

\* the transaction guard goes out of scope: exclusive access released
TxnRelease(n) == n - 1

\* outcomes of begin_transaction, fetch_object and save_object
Outcomes == {"ok"} \cup TransportErrors

FetchObject(id) == store[id]

SaveObject(id, bytes) == [store EXCEPT ![id] = bytes]

----------------------------------------------------------------------------
(* cccid.rs: pure parts *)

\* mutant: the slice is taken one byte early (0-based / 1-based slip)
cccidOffByOne(s) == Ok([i \in 1..CCCID_SIZE |-> s[CCC_ID_OFFS + i - 1]])

\* mutant: the slice is taken from the start of the CCC, the offset forgotten
cccidNoOffset(s) == Ok([i \in 1..CCCID_SIZE |-> s[i]])

\* CCC::cccid
cccid(s) == Ok([i \in 1..CCCID_SIZE |-> s[CCC_ID_OFFS + i]])

\* mutant: only a short response is rejected, a long one is truncated
LengthAtLeast(r) == Len(r) >= Len(CCC_TMPL)

\* get: response.len() != CCC_TMPL.len() is the rejection
LengthOk(r) == Len(r) = Len(CCC_TMPL)

\* mutant: only the header and the card id are copied, the rest stays zeroed
CopyCCCPartial(r) ==
    [i \in 1..CCC_SIZE |-> IF i <= CCC_ID_OFFS + CCCID_SIZE THEN r[i] ELSE 0]

\* get: ccc.copy_from_slice(&response[0..CCC_SIZE])
CopyCCC(r) == [i \in 1..CCC_SIZE |-> r[i]]

\* mutant: only the first CCCID_SIZE bytes of the template are overwritten
SetBufCardIdOnly(s) ==
    [i \in 1..Len(CCC_TMPL) |-> IF i <= CCCID_SIZE THEN s[i] ELSE CCC_TMPL[i]]

\* mutant: CCCID_SIZE bytes of self are written at CCC_ID_OFFS of the template
SetBufAtIdOffset(s) ==
    [i \in 1..Len(CCC_TMPL) |->
        IF i > CCC_ID_OFFS /\ i <= CCC_ID_OFFS + CCCID_SIZE
        THEN s[i - CCC_ID_OFFS]
        ELSE CCC_TMPL[i]]

\* set: buf = CCC_TMPL.to_vec(); buf[0..self.0.len()].copy_from_slice(&self.0)
SetBuf(s) == [i \in 1..Len(CCC_TMPL) |-> IF i <= Len(s) THEN s[i] ELSE CCC_TMPL[i]]

----------------------------------------------------------------------------
(* State machine *)

Init ==
    /\ store \in [ObjectIds -> InitObjects]
    /\ store[OBJ_CAPABILITY + 1] = CCC_TMPL
    /\ active = 0
    /\ pc = "idle"
    /\ op = "none"
    /\ self = <<>>
    /\ buf = <<>>
    /\ response = <<>>
    /\ result = NoResult
    /\ beginRes = "none"
    /\ objRes = "none"
    /\ nBegin = 0
    /\ nObjOps = 0
    /\ noTxnOps = FALSE
    /\ nested = FALSE
    /\ written = {}
    /\ saved = <<>>

\* a caller evaluates v.cccid()
CallCccid ==
    /\ pc = "idle"
    /\ \E v \in InputCCCs :
        /\ op' = "cccid"
        /\ self' = v
        /\ result' = cccid(v)
    /\ pc' = "done"
    /\ UNCHANGED <<store, active, buf, response, beginRes, objRes, nBegin, nObjOps,
                   noTxnOps, nested, written, saved>>

\* a caller enters CCC::get(yubikey)
CallGet ==
    /\ pc = "idle"
    /\ op' = "get"
    /\ pc' = "get_begin"
    /\ UNCHANGED <<store, active, self, buf, response, result, beginRes, objRes,
                   nBegin, nObjOps, noTxnOps, nested, written, saved>>

\* get: let txn = yubikey.begin_transaction()?;
GetBegin ==
    /\ pc = "get_begin"
    /\ nBegin' = nBegin + 1
    /\ nested' = (nested \/ active > 0)
    /\ \E o \in Outcomes :
        /\ beginRes' = o
        /\ IF o = "ok"
           THEN /\ active' = TxnAcquire(active)
                /\ pc' = "get_fetch"
                /\ UNCHANGED result
           ELSE /\ result' = Err(o)
                /\ pc' = "done"
                /\ UNCHANGED active
    /\ UNCHANGED <<store, op, self, buf, response, objRes, nObjOps, noTxnOps,
                   written, saved>>

\* mutant: a fetch error is replaced by GenericError
GetFetchMapsError ==
    /\ pc = "get_fetch"
    /\ nObjOps' = nObjOps + 1
    /\ noTxnOps' = (noTxnOps \/ active = 0)
    /\ \E o \in Outcomes :
        /\ objRes' = o
        /\ IF o = "ok"
           THEN /\ response' = FetchObject(OBJ_CAPABILITY)
                /\ pc' = "get_check"
                /\ UNCHANGED <<result, active>>
           ELSE /\ result' = Err("GenericError")
                /\ active' = TxnRelease(active)
                /\ pc' = "done"
                /\ UNCHANGED response
    /\ UNCHANGED <<store, op, self, buf, beginRes, nBegin, nested, written, saved>>

\* get: let response = txn.fetch_object(OBJ_CAPABILITY)?;
GetFetch ==
    /\ pc = "get_fetch"
    /\ nObjOps' = nObjOps + 1
    /\ noTxnOps' = (noTxnOps \/ active = 0)
    /\ \E o \in Outcomes :
        /\ objRes' = o
        /\ IF o = "ok"
           THEN /\ response' = FetchObject(OBJ_CAPABILITY)
                /\ pc' = "get_check"
                /\ UNCHANGED <<result, active>>
           ELSE /\ result' = Err(o)
                /\ active' = TxnRelease(active)
                /\ pc' = "done"
                /\ UNCHANGED response
    /\ UNCHANGED <<store, op, self, buf, beginRes, nBegin, nested, written, saved>>

\* mutant: the early return on a length mismatch leaves the transaction open
GetCheckLeak ==
    /\ pc = "get_check"
    /\ IF ~LengthOk(response)
       THEN /\ result' = Err("GenericError")
            /\ UNCHANGED active
       ELSE /\ result' = Ok(CopyCCC(response))
            /\ active' = TxnRelease(active)
    /\ pc' = "done"
    /\ UNCHANGED <<store, op, self, buf, response, beginRes, objRes, nBegin, nObjOps,
                   noTxnOps, nested, written, saved>>

\* get: the length check, the copy and the return (txn goes out of scope)
GetCheck ==
    /\ pc = "get_check"
    /\ result' = IF ~LengthOk(response)
                 THEN Err("GenericError")
                 ELSE Ok(CopyCCC(response))
    /\ active' = TxnRelease(active)
    /\ pc' = "done"
    /\ UNCHANGED <<store, op, self, buf, response, beginRes, objRes, nBegin, nObjOps,
                   noTxnOps, nested, written, saved>>

\* a caller enters v.set(yubikey): buf is built before the transaction
CallSet ==
    /\ pc = "idle"
    /\ \E v \in InputCCCs :
        /\ self' = v
        /\ buf' = SetBuf(v)
    /\ op' = "set"
    /\ pc' = "set_begin"
    /\ UNCHANGED <<store, active, response, result, beginRes, objRes, nBegin, nObjOps,
                   noTxnOps, nested, written, saved>>

\* mutant: a failed begin_transaction is ignored and set goes on to save
SetBeginIgnoresError ==
    /\ pc = "set_begin"
    /\ nBegin' = nBegin + 1
    /\ nested' = (nested \/ active > 0)
    /\ \E o \in Outcomes :
        /\ beginRes' = o
        /\ active' = IF o = "ok" THEN TxnAcquire(active) ELSE active
    /\ pc' = "set_save"
    /\ UNCHANGED <<store, op, self, buf, response, result, objRes, nObjOps, noTxnOps,
                   written, saved>>

\* set: let txn = yubikey.begin_transaction()?;
SetBegin ==
    /\ pc = "set_begin"
    /\ nBegin' = nBegin + 1
    /\ nested' = (nested \/ active > 0)
    /\ \E o \in Outcomes :
        /\ beginRes' = o
        /\ IF o = "ok"
           THEN /\ active' = TxnAcquire(active)
                /\ pc' = "set_save"
                /\ UNCHANGED result
           ELSE /\ result' = Err(o)
                /\ pc' = "done"
                /\ UNCHANGED active
    /\ UNCHANGED <<store, op, self, buf, response, objRes, nObjOps, noTxnOps,
                   written, saved>>

\* mutant: the transaction is not released when set returns
SetSaveLeak ==
    /\ pc = "set_save"
    /\ nObjOps' = nObjOps + 1
    /\ noTxnOps' = (noTxnOps \/ active = 0)
    /\ \E o \in Outcomes :
        /\ objRes' = o
        /\ IF o = "ok"
           THEN /\ store' = SaveObject(OBJ_CAPABILITY, buf)
                /\ written' = written \cup {OBJ_CAPABILITY}
                /\ saved' = self
                /\ result' = Ok(<<>>)
           ELSE /\ result' = Err(o)
                /\ UNCHANGED <<store, written, saved>>
    /\ pc' = "done"
    /\ UNCHANGED <<active, op, self, buf, response, beginRes, nBegin, nested>>

\* set: txn.save_object(OBJ_CAPABILITY, &buf), returned as is (txn goes out of scope)
SetSave ==
    /\ pc = "set_save"
    /\ nObjOps' = nObjOps + 1
    /\ noTxnOps' = (noTxnOps \/ active = 0)
    /\ \E o \in Outcomes :
        /\ objRes' = o
        /\ IF o = "ok"
           THEN /\ store' = SaveObject(OBJ_CAPABILITY, buf)
                /\ written' = written \cup {OBJ_CAPABILITY}
                /\ saved' = self
                /\ result' = Ok(<<>>)
           ELSE /\ result' = Err(o)
                /\ UNCHANGED <<store, written, saved>>
    /\ active' = TxnRelease(active)
    /\ pc' = "done"
    /\ UNCHANGED <<op, self, buf, response, beginRes, nBegin, nested>>

\* the caller takes the result; the call's locals are gone
Return ==
    /\ pc = "done"
    /\ pc' = "idle"
    /\ op' = "none"
    /\ self' = <<>>
    /\ buf' = <<>>
    /\ response' = <<>>
    /\ result' = NoResult
    /\ beginRes' = "none"
    /\ objRes' = "none"
    /\ nBegin' = 0
    /\ nObjOps' = 0
    /\ written' = {}
    /\ UNCHANGED <<store, active, noTxnOps, nested, saved>>

Next ==
    \/ CallCccid
    \/ CallGet
    \/ GetBegin
    \/ GetFetch
    \/ GetCheck
    \/ CallSet
    \/ SetBegin
    \/ SetSave
    \/ Return

Spec == Init /\ [][Next]_vars

----------------------------------------------------------------------------
(* Properties *)

GetReturned == pc = "done" /\ op = "get"

SetReturned == pc = "done" /\ op = "set"

CccidReturned == pc = "done" /\ op = "cccid"

IdBytes == CCC_ID_OFFS .. (CCC_ID_OFFS + CCCID_SIZE - 1)

\* C1: whenever fetch_object answered get with a byte sequence whose length is
\* not 51, shorter (empty included) or longer, get returns Err(GenericError)
\* and no CCC.
GetRejectsWrongLength ==
    (GetReturned /\ objRes = "ok" /\ Len(response) # CCC_SIZE)
        => result = Err("GenericError")

GetRejectsWrongLengthWitness ==
    /\ GetReturned
    /\ objRes = "ok"
    /\ Len(response) > CCC_SIZE
    /\ result = Err("GenericError")

\* C2: whenever get or set has returned (with Ok, with a transport error, or
\* with GenericError on a length mismatch), and between calls, no transaction
\* is active on the device.
TxnReleasedOnReturn ==
    pc \in {"done", "idle"} => active = 0

TxnReleasedOnReturnWitness ==
    /\ GetReturned
    /\ beginRes = "ok"
    /\ objRes = "ok"
    /\ result = Err("GenericError")
    /\ Len(response) # CCC_SIZE
    /\ active = 0

\* C3: no fetch_object or save_object is ever invoked without an active
\* transaction, and a call whose begin_transaction failed has returned that
\* error without making any object operation.
NoObjectOpAfterFailedBegin ==
    /\ ~noTxnOps
    /\ beginRes \in TransportErrors =>
        /\ pc = "done"
        /\ result = Err(beginRes)
        /\ nObjOps = 0
        /\ objRes = "none"

NoObjectOpAfterFailedBeginWitness ==
    /\ SetReturned
    /\ beginRes \in TransportErrors
    /\ nObjOps = 0
    /\ result = Err(beginRes)

\* C4: for every CardId c, cccid() of the template with c embedded at offset
\* 9..23 returns c, and every byte of that CCC outside offsets 9..22 is the
\* template's.
EmbedRoundTrip ==
    CccidReturned =>
        \A c \in CardIds :
            self = Embed(c) =>
                /\ result = Ok(c)
                /\ \A i \in Offsets(self) \ IdBytes : At(self, i) = At(CCC_TMPL, i)

EmbedRoundTripWitness ==
    /\ CccidReturned
    /\ \E c \in CardIds :
        /\ c # Fill(CCCID_SIZE, 0)
        /\ self = Embed(c)
        /\ result = Ok(c)

\* C5 as stated: the buffer set persists is 51 bytes, carries the caller's
\* bytes at offsets 0..13 and the template's bytes at offsets 14..50.
SetBufKeepsTemplateTail ==
    (SetReturned /\ objRes = "ok") =>
        LET persisted == store[OBJ_CAPABILITY]
        IN  /\ Len(persisted) = CCC_SIZE
            /\ \A i \in 0 .. (CCCID_SIZE - 1) : At(persisted, i) = At(self, i)
            /\ \A i \in CCCID_SIZE .. (CCC_SIZE - 1) :
                   At(persisted, i) = At(CCC_TMPL, i)

\* C5 amended: the buffer set persists is 51 bytes and equals the caller's
\* CCC at every offset 0..50 (the whole template copy is overwritten); a
\* successful set has saved it under object 0x005FC107.
SetBufIsCallerCCC ==
    (op = "set" /\ pc # "idle") =>
        /\ Len(buf) = CCC_SIZE
        /\ \A i \in Offsets(buf) : At(buf, i) = At(self, i)
        /\ (pc = "done" /\ objRes = "ok") =>
            /\ store[OBJ_CAPABILITY] = buf
            /\ written = {OBJ_CAPABILITY}

SetBufIsCallerCCCWitness ==
    /\ SetReturned
    /\ objRes = "ok"
    /\ store[OBJ_CAPABILITY] = buf
    /\ \E i \in CCCID_SIZE .. (CCC_SIZE - 1) : At(buf, i) # At(CCC_TMPL, i)

\* C6: get returns Ok(ccc) exactly when begin_transaction succeeded and
\* fetch_object on object 0x005FC107 answered 51 bytes, and then ccc is that
\* answer at every offset; otherwise it returns an error and no CCC.
GetOkIsVerbatim ==
    GetReturned =>
        LET good == beginRes = "ok" /\ objRes = "ok" /\ Len(response) = CCC_SIZE
        IN  /\ result.ok <=> good
            /\ good =>
                /\ response = store[OBJ_CAPABILITY]
                /\ Len(result.val) = CCC_SIZE
                /\ \A i \in 0 .. (CCC_SIZE - 1) : At(result.val, i) = At(response, i)
            /\ ~good => result.val = <<>> /\ result.err # "none"

GetOkIsVerbatimWitness ==
    /\ GetReturned
    /\ result.ok
    /\ result.val = response
    /\ result.val # CCC_TMPL

\* C7: an error of begin_transaction, fetch_object or save_object is what the
\* call returns, and a call makes at most one begin_transaction and at most
\* one fetch_object or save_object.
ErrorsPropagateUnmodified ==
    /\ nBegin <= 1
    /\ nObjOps <= 1
    /\ (pc = "done" /\ beginRes \in TransportErrors) => result = Err(beginRes)
    /\ (pc = "done" /\ objRes \in TransportErrors) => result = Err(objRes)

ErrorsPropagateUnmodifiedWitness ==
    /\ GetReturned
    /\ objRes = "PcscError"
    /\ result = Err("PcscError")
    /\ nBegin = 1
    /\ nObjOps = 1

\* C8: at most one transaction is active on the device at any time, and no
\* begin_transaction is issued while an earlier transaction is still active.
AtMostOneTransaction ==
    /\ active <= 1
    /\ ~nested

AtMostOneTransactionWitness ==
    /\ saved # <<>>
    /\ op = "get"
    /\ pc = "get_fetch"
    /\ active = 1

\* C9: cccid() returns Ok with 14 bytes, byte i being CCC byte 9 + i, and the
\* same result for every CCC that agrees with this one on offsets 9..22.
CccidIsSlice ==
    CccidReturned =>
        /\ result.ok
        /\ Len(result.val) = CCCID_SIZE
        /\ \A i \in 0 .. (CCCID_SIZE - 1) : At(result.val, i) = At(self, CCC_ID_OFFS + i)
        /\ \A b \in InputCCCs :
            (\A i \in IdBytes : At(b, i) = At(self, i)) => cccid(b) = result

CccidIsSliceWitness ==
    /\ CccidReturned
    /\ result.ok
    /\ \E i \in IdBytes : At(self, i) # At(CCC_TMPL, i)
    /\ \E b \in InputCCCs : b # self /\ cccid(b) = result

\* C10: after a successful v.set, a successful get returns v at all 51
\* offsets and so the same cccid(); set writes object 0x005FC107 only and
\* get writes nothing.
SetThenGetReturnsSaved ==
    /\ (GetReturned /\ result.ok /\ saved # <<>>) =>
        /\ \A i \in 0 .. (CCC_SIZE - 1) : At(result.val, i) = At(saved, i)
        /\ cccid(result.val) = cccid(saved)
    /\ op = "get" => written = {}
    /\ written \subseteq {OBJ_CAPABILITY}
    /\ store[OBJ_CAPABILITY + 1] = CCC_TMPL

SetThenGetReturnsSavedWitness ==
    /\ GetReturned
    /\ result.ok
    /\ saved # <<>>
    /\ saved # CCC_TMPL
    /\ result.val = saved

====
